---- MODULE Spec2Model ----
(***************************************************************************)
(* A model of src/src/main.js (sales-bonus): the sequence trend analyzer,  *)
(* the metrics accumulator, the special-bonus rules with their dispatcher, *)
(* and analyzeSalesData.                                                   *)
(*                                                                         *)
(* Numbers.  JavaScript numbers are modelled exactly: a finite number is   *)
(* an integer or a rational [n, d] (d > 0), and the two IEEE results the   *)
(* code can produce from finite inputs without overflow, Infinity and NaN, *)
(* are separate values.  Money is held in hundredths of the currency unit  *)
(* ("cents"), so that a percentage discount stays an integer.  Binary      *)
(* rounding error of floating point sums is not modelled.                  *)
(***************************************************************************)
EXTENDS Integers, Sequences, FiniteSets, TLC

VARIABLES
    \* analyzeSequence
    sequence, tolerance, trends, seqPc,
    \* baseMetrics
    records, products, profitFn, acc, profitCalls, bmPc,
    \* analyzeSalesData
    data, options, sellerStats, nextRecord, revenueCalls, bonusCalls,
    report, error, asPc,
    \* calculateSpecialBonuses
    bData, bOptions, bonusFunctions, context, results, csbPc

varsSeq == <<sequence, tolerance, trends, seqPc>>
varsBM  == <<records, products, profitFn, acc, profitCalls, bmPc>>
varsAS  == <<data, options, sellerStats, nextRecord, revenueCalls, bonusCalls,
             report, error, asPc>>
varsCSB == <<bData, bOptions, bonusFunctions, context, results, csbPc>>
vars    == <<varsSeq, varsBM, varsAS, varsCSB>>

(***************************************************************************)
(* Bounds of the model.                                                    *)
(***************************************************************************)
MaxSeqLen == 3      \* longest sequence handed to analyzeSequence
MaxRecords == 3     \* purchase records read by one call of baseMetrics
MaxItems == 2       \* items over all the records of one call of baseMetrics
MaxSales == 2       \* purchase records of a dataset given to analyzeSalesData
MaxSoldItems == 2   \* items over all the records of such a dataset
MaxBonusRecords == 2 \* purchase records of a dataset given to calculateSpecialBonuses
Unit == 20          \* magnitude of the sample values: 1/Unit is the 5% step

(***************************************************************************)
(* Exact arithmetic on JavaScript numbers.                                 *)
(***************************************************************************)
Abs(x) == IF x < 0 THEN -x ELSE x

Rat(n, d) == [n |-> n, d |-> d]
RInt(k) == Rat(k, 1)
RAdd(a, b) == Rat(a.n * b.d + b.n * a.d, a.d * b.d)
RSub(a, b) == Rat(a.n * b.d - b.n * a.d, a.d * b.d)
RAbs(a) == Rat(Abs(a.n), a.d)
RLess(a, b) == a.n * b.d < b.n * a.d
RZero == Rat(0, 1)
RMul(a, b) == Rat(a.n * b.n, a.d * b.d)

\* a / b for finite a, b as IEEE 754 gives it: x/0 is Infinity (x # 0), 0/0 is NaN
Divide(a, b) ==
    IF b.n = 0
    THEN IF a.n = 0 THEN [kind |-> "NaN"]
         ELSE [kind |-> IF a.n > 0 THEN "Infinity" ELSE "-Infinity"]
    ELSE [kind |-> "finite",
          val |-> IF b.n > 0 THEN Rat(a.n * b.d, a.d * b.n)
                  ELSE Rat(-(a.n * b.d), a.d * (-b.n))]

\* q > t, where q is a result of Divide and t is finite: NaN compares false
GreaterThan(q, t) ==
    CASE q.kind = "NaN" -> FALSE
      [] q.kind = "Infinity" -> TRUE
      [] q.kind = "-Infinity" -> FALSE
      [] OTHER -> RLess(t, q.val)

(***************************************************************************)
(* analyzeSequence (main.js 22-51)                                         *)
(***************************************************************************)
DefaultTolerance == Rat(1, 20)

\* Math.abs(sequence[i] - sequence[i-1]) / Math.abs(sequence[i-1]), i a
\* JavaScript index (sequence[i] is seq[i+1] here)
relativeChange(seq, i) ==
    Divide(RAbs(RSub(seq[i + 1], seq[i])), RAbs(seq[i]))

\* the for loop from index i on: FALSE at the first pair whose relative
\* change exceeds the tolerance, TRUE when the scan reaches the end
RECURSIVE StableScan(_, _, _)
StableScanSkipsFirst(seq, i, tol) ==
    IF i >= Len(seq) THEN TRUE
    ELSE IF i > 1 /\ GreaterThan(relativeChange(seq, i), tol) THEN FALSE
    ELSE StableScan(seq, i + 1, tol)

StableScan(seq, i, tol) ==
    IF i >= Len(seq) THEN TRUE
    ELSE IF GreaterThan(relativeChange(seq, i), tol) THEN FALSE
    ELSE StableScan(seq, i + 1, tol)

analyzeSequence(seq, tol) ==
    IF Len(seq) < 2
    THEN [isStable |-> TRUE, isIncreasing |-> FALSE, isDecreasing |-> FALSE]
    ELSE LET totalChange == RSub(seq[Len(seq)], seq[1])
         IN  [isStable |-> StableScan(seq, 1, tol),
              isIncreasing |-> RLess(RZero, totalChange),
              isDecreasing |-> RLess(totalChange, RZero)]

(***************************************************************************)
(* calculateAverage (main.js 59-62): sum / length || 0.  An empty list     *)
(* gives 0 / 0 = NaN, and NaN || 0 is 0; a zero average is 0 either way.   *)
(***************************************************************************)
RECURSIVE RSum(_)
RSum(values) ==
    IF values = <<>> THEN RZero ELSE RAdd(Head(values), RSum(Tail(values)))

calculateAverage(values) ==
    LET q == Divide(RSum(values), RInt(Len(values)))
    IN  IF q.kind = "finite" THEN q.val ELSE RZero

(***************************************************************************)
(* JavaScript objects used as dictionaries, and Sets.                      *)
(* An object is the sequence of its <<key, value>> properties in creation  *)
(* order.  Object.entries lists the keys that are array indices ("1", "2") *)
(* first, in ascending numeric order, and then the other string keys in    *)
(* creation order.  A Set is the sequence of its members in insertion      *)
(* order.                                                                  *)
(***************************************************************************)
EmptyObject == <<>>

Has(obj, k) == \E j \in 1..Len(obj) : obj[j][1] = k
Get(obj, k) == obj[CHOOSE j \in 1..Len(obj) : obj[j][1] = k][2]
Put(obj, k, v) ==
    IF Has(obj, k)
    THEN [j \in 1..Len(obj) |-> IF obj[j][1] = k THEN <<k, v>> ELSE obj[j]]
    ELSE Append(obj, <<k, v>>)
Keys(obj) == {obj[j][1] : j \in 1..Len(obj)}

\* the numeric value of a key that is an array index, -1 for any other key
ArrayIndex(k) ==
    CASE k = "1" -> 1
      [] k = "2" -> 2
      [] k = "3" -> 3
      [] OTHER -> -1

\* the index keys among the properties, ascending
RECURSIVE IndexEntries(_, _)
IndexEntries(obj, from) ==
    LET cand == {j \in 1..Len(obj) : ArrayIndex(obj[j][1]) >= from}
    IN  IF cand = {} THEN <<>>
        ELSE LET j == CHOOSE x \in cand :
                        \A y \in cand : ArrayIndex(obj[x][1]) <= ArrayIndex(obj[y][1])
             IN  <<obj[j]>> \o IndexEntries(obj, ArrayIndex(obj[j][1]) + 1)

ObjectEntries(obj) ==
    LET IsName(e) == ArrayIndex(e[1]) < 0
    IN  IndexEntries(obj, 0) \o SelectSeq(obj, IsName)

EmptySet == <<>>
SetHas(s, x) == \E j \in 1..Len(s) : s[j] = x
SetAdd(s, x) == IF SetHas(s, x) THEN s ELSE Append(s, x)

(***************************************************************************)
(* Products and items.  Prices are whole currency units, discounts whole   *)
(* percents; revenue and profit are in cents.                              *)
(***************************************************************************)
Undefined == [undefined |-> TRUE]

\* products.find(p => p.sku === sku): the first match, or undefined
RECURSIVE find(_, _)
find(catalog, sku) ==
    IF catalog = <<>> THEN Undefined
    ELSE IF Head(catalog).sku = sku THEN Head(catalog)
    ELSE find(Tail(catalog), sku)

\* sale_price * quantity * (1 - discount / 100), in cents
lineRevenue(item) == item.sale_price * item.quantity * (100 - item.discount)

(***************************************************************************)
(* simpleProfit (main.js 203-205).  Reading product.purchase_price of an   *)
(* undefined product throws a TypeError.                                   *)
(***************************************************************************)
simpleProfit(item, product) ==
    IF product = Undefined
    THEN [threw |-> TRUE, value |-> 0]
    ELSE [threw |-> FALSE,
          value |-> lineRevenue(item) - product.purchase_price * item.quantity * 100]

\* a caller's profit function that never reads a missing product
guardedProfit(item, product) ==
    IF product = Undefined
    THEN [threw |-> FALSE, value |-> 0]
    ELSE simpleProfit(item, product)

\* the injected calculateProfit, called as calculateProfit(item, product)
calculateProfit(fn, item, product) ==
    IF fn = "simpleProfit" THEN simpleProfit(item, product)
    ELSE guardedProfit(item, product)

(***************************************************************************)
(* baseMetrics (main.js 214-245): records.reduce over the accumulator      *)
(* {sellers, customers, products}.  A fold state carries the accumulator,  *)
(* whether the profit function threw, and how often it was called.         *)
(***************************************************************************)
NewSellerBucket == [revenue |-> 0, profit |-> 0, items |-> <<>>, customers |-> EmptySet]
NewCustomerBucket == [revenue |-> 0, profit |-> 0, sellers |-> EmptySet]
NewProductBucket == [quantity |-> 0, revenue |-> 0]
EmptyAcc == [sellers |-> EmptyObject, customers |-> EmptyObject, products |-> EmptyObject]

\* lines 219-220: the two buckets are created when the record is entered
EnsureBuckets(a, sellerId, customerId) ==
    [a EXCEPT !.sellers = IF Has(@, sellerId) THEN @
                          ELSE Put(@, sellerId, NewSellerBucket),
              !.customers = IF Has(@, customerId) THEN @
                            ELSE Put(@, customerId, NewCustomerBucket)]

\* lines 227-240: one item, after its profit has been computed
AddItemNoCustomerRevenue(a, sellerId, customerId, item, profit) ==
    LET s == Get(a.sellers, sellerId)
        c == Get(a.customers, customerId)
        p == IF Has(a.products, item.sku) THEN Get(a.products, item.sku)
             ELSE NewProductBucket
    IN  [sellers |-> Put(a.sellers, sellerId,
                         [revenue |-> s.revenue + lineRevenue(item),
                          profit |-> s.profit + profit,
                          items |-> Append(s.items, item),
                          customers |-> SetAdd(s.customers, customerId)]),
         customers |-> Put(a.customers, customerId,
                         [revenue |-> c.revenue,
                          profit |-> c.profit + profit,
                          sellers |-> SetAdd(c.sellers, sellerId)]),
         products |-> Put(a.products, item.sku,
                         [quantity |-> p.quantity + item.quantity,
                          revenue |-> p.revenue + lineRevenue(item)])]

AddItemNoSellerLink(a, sellerId, customerId, item, profit) ==
    LET s == Get(a.sellers, sellerId)
        c == Get(a.customers, customerId)
        p == IF Has(a.products, item.sku) THEN Get(a.products, item.sku)
             ELSE NewProductBucket
    IN  [sellers |-> Put(a.sellers, sellerId,
                         [revenue |-> s.revenue + lineRevenue(item),
                          profit |-> s.profit + profit,
                          items |-> Append(s.items, item),
                          customers |-> SetAdd(s.customers, customerId)]),
         customers |-> Put(a.customers, customerId,
                         [revenue |-> c.revenue + lineRevenue(item),
                          profit |-> c.profit + profit,
                          sellers |-> c.sellers]),
         products |-> Put(a.products, item.sku,
                         [quantity |-> p.quantity + item.quantity,
                          revenue |-> p.revenue + lineRevenue(item)])]

AddItem(a, sellerId, customerId, item, profit) ==
    LET s == Get(a.sellers, sellerId)
        c == Get(a.customers, customerId)
        p == IF Has(a.products, item.sku) THEN Get(a.products, item.sku)
             ELSE NewProductBucket
    IN  [sellers |-> Put(a.sellers, sellerId,
                         [revenue |-> s.revenue + lineRevenue(item),
                          profit |-> s.profit + profit,
                          items |-> Append(s.items, item),
                          customers |-> SetAdd(s.customers, customerId)]),
         customers |-> Put(a.customers, customerId,
                         [revenue |-> c.revenue + lineRevenue(item),
                          profit |-> c.profit + profit,
                          sellers |-> SetAdd(c.sellers, sellerId)]),
         products |-> Put(a.products, item.sku,
                         [quantity |-> p.quantity + item.quantity,
                          revenue |-> p.revenue + lineRevenue(item)])]

\* lines 222-241: record.items.forEach; the first throw ends the whole fold
RECURSIVE ForEachItem(_, _, _, _, _, _)
ForEachItem(st, items, sellerId, customerId, fn, catalog) ==
    IF items = <<>> \/ st.threw THEN st
    ELSE LET item == Head(items)
             product == find(catalog, item.sku)
             r == calculateProfit(fn, item, product)
             called == [st EXCEPT !.calls = @ + 1]
         IN  IF r.threw
             THEN [called EXCEPT !.threw = TRUE]
             ELSE ForEachItem(
                      [called EXCEPT !.acc = AddItem(@, sellerId, customerId, item, r.value)],
                      Tail(items), sellerId, customerId, fn, catalog)

\* the reduce callback on one record
ReduceRecord(st, record, fn, catalog) ==
    ForEachItem([st EXCEPT !.acc = EnsureBuckets(@, record.seller_id, record.customer_id)],
                record.items, record.seller_id, record.customer_id, fn, catalog)

RECURSIVE ReduceRecords(_, _, _, _)
ReduceRecords(st, recs, fn, catalog) ==
    IF recs = <<>> \/ st.threw THEN st
    ELSE ReduceRecords(ReduceRecord(st, Head(recs), fn, catalog), Tail(recs), fn, catalog)

baseMetrics(recs, fn, catalog) ==
    ReduceRecords([acc |-> EmptyAcc, threw |-> FALSE, calls |-> 0], recs, fn, catalog)

(***************************************************************************)
(* Inputs of the metrics accumulator.                                      *)
(***************************************************************************)
SeqsUpTo(S, n) == UNION {[1..k -> S] : k \in 0..n}

SellerIds == {"seller_1", "seller_2"}
CustomerIds == {"customer_1", "customer_2"}
UnknownSku == "SKU_X"

ProductA == [sku |-> "SKU_A", purchase_price |-> 4]
ProductB == [sku |-> "SKU_B", purchase_price |-> 30]
Catalogs == {<<ProductA>>, <<ProductA, ProductB>>}

MetricItems ==
    {[sku |-> "SKU_A", sale_price |-> 10, quantity |-> 1, discount |-> 0],
     [sku |-> "SKU_B", sale_price |-> 20, quantity |-> 2, discount |-> 50],
     [sku |-> UnknownSku, sale_price |-> 7, quantity |-> 1, discount |-> 0]}

RECURSIVE ItemCount(_)
ItemCount(recs) ==
    IF recs = <<>> THEN 0 ELSE Len(Head(recs).items) + ItemCount(Tail(recs))

MetricRecords(room) ==
    {[seller_id |-> s, customer_id |-> c, items |-> its] :
        s \in SellerIds, c \in CustomerIds, its \in SeqsUpTo(MetricItems, room)}

(***************************************************************************)
(* JavaScript values where the code depends on their type.                 *)
(***************************************************************************)
Num(v) == [type |-> "number", v |-> v]
Obj(ref) == [type |-> "object", ref |-> ref]
NaN == [type |-> "NaN"]
JsUndefined == [type |-> "undefined"]

\* x === n for a number n: false for a value of any other type
StrictEqualsNumber(x, n) == x.type = "number" /\ x.v = n

\* x.profit: the property of an object, undefined on a number
PropertyProfit(x) == IF x.type = "object" THEN Num(x.ref.profit) ELSE JsUndefined

\* x * (pct / 100), kept exact as x * pct in hundredths of x's unit;
\* undefined * k is NaN
TimesPercent(x, pct) == IF x.type = "number" THEN Num(x.v * pct) ELSE NaN

\* n / d rounded to the nearest integer, halves away from zero (toFixed)
RoundDiv(n, d) ==
    IF n >= 0 THEN (2 * n + d) \div (2 * d) ELSE -((2 * (-n) + d) \div (2 * d))

(***************************************************************************)
(* calculateSimpleRevenue (main.js 248-252), in cents                      *)
(***************************************************************************)
calculateSimpleRevenue(purchase, product) ==
    purchase.sale_price * purchase.quantity * (100 - purchase.discount)

(***************************************************************************)
(* calculateBonusByProfit(index, total, seller) (main.js 254-265).  The    *)
(* result is in hundredths of a cent (profit in cents times the percent).  *)
(***************************************************************************)
calculateBonusByProfit(index, total, seller) ==
    IF StrictEqualsNumber(index, 0) THEN TimesPercent(PropertyProfit(seller), 15)
    ELSE IF StrictEqualsNumber(index, 1) \/ StrictEqualsNumber(index, 2)
         THEN TimesPercent(PropertyProfit(seller), 10)
    ELSE IF StrictEqualsNumber(index, -1) THEN Num(0)
    ELSE TimesPercent(PropertyProfit(seller), 5)

\* a caller's strategy written to the call's argument order
\* (seller, index, total), paying the same rates
bonusBySellerRank(seller, index, total) ==
    calculateBonusByProfit(index, total, seller)

\* the injected calculateBonus, called as calculateBonus(seller, index, total)
calculateBonus(fn, seller, index, total) ==
    IF fn = "calculateBonusByProfit" THEN calculateBonusByProfit(seller, index, total)
    ELSE bonusBySellerRank(seller, index, total)

(***************************************************************************)
(* Array.prototype.sort with a comparator b.key - a.key: a stable sort,    *)
(* key descending.  The array is given as [key, val] pairs.                *)
(***************************************************************************)
RECURSIVE InsertDescending(_, _)
InsertDescendingBeforeEqual(sorted, x) ==
    IF sorted = <<>> THEN <<x>>
    ELSE IF Head(sorted).key > x.key
         THEN <<Head(sorted)>> \o InsertDescending(Tail(sorted), x)
         ELSE <<x>> \o sorted

InsertDescending(sorted, x) ==
    IF sorted = <<>> THEN <<x>>
    ELSE IF Head(sorted).key >= x.key
         THEN <<Head(sorted)>> \o InsertDescending(Tail(sorted), x)
         ELSE <<x>> \o sorted

RECURSIVE SortPairs(_, _)
SortPairs(sorted, rest) ==
    IF rest = <<>> THEN sorted
    ELSE SortPairs(InsertDescending(sorted, Head(rest)), Tail(rest))

SortDescending(pairs) ==
    LET sorted == SortPairs(<<>>, pairs)
    IN  [j \in 1..Len(pairs) |-> sorted[j].val]

\* array.slice(0, n)
SliceFirst(s, n) == SubSeq(s, 1, IF Len(s) < n THEN Len(s) ELSE n)

(***************************************************************************)
(* analyzeSalesData (main.js 267-365)                                      *)
(*                                                                         *)
(* A catalog of the dataset is undefined, a value that is no array, or an  *)
(* array; the dataset itself is null or an object.  The options are        *)
(* undefined, null, a value that is no object, or an object whose two      *)
(* strategies are each undefined, a falsy value, a truthy value that is no *)
(* function, or a function.                                                *)
(***************************************************************************)
TopN == 10

Array(elems) == [type |-> "array", elems |-> elems]
IsArray(v) == v.type = "array"
IsFunction(f) == f.type = "function"
Truthy(f) == f.type \in {"function", "string"}
Function(name) == [type |-> "function", name |-> name]

\* lines 269-278: the condition of the first throw
DatasetRejectedAllowsNoProducts(d) ==
    IF d.type # "object" THEN TRUE
    ELSE IF ~IsArray(d.customers) \/ ~IsArray(d.products)
            \/ ~IsArray(d.sellers) \/ ~IsArray(d.purchase_records)
         THEN TRUE
    ELSE \/ Len(d.customers.elems) = 0
         \/ Len(d.sellers.elems) = 0
         \/ Len(d.purchase_records.elems) = 0

DatasetRejected(d) ==
    IF d.type # "object" THEN TRUE
    ELSE IF ~IsArray(d.customers) \/ ~IsArray(d.products)
            \/ ~IsArray(d.sellers) \/ ~IsArray(d.purchase_records)
         THEN TRUE
    ELSE \/ Len(d.customers.elems) = 0
         \/ Len(d.products.elems) = 0
         \/ Len(d.sellers.elems) = 0
         \/ Len(d.purchase_records.elems) = 0

\* lines 269-293: the error thrown, or "none".  The messages are named:
\* InvalidData 'Некорректные входные данные', OptionsNotObject 'Опции должны
\* быть объектом', MissingStrategy 'Чего-то не хватает', StrategyNotFunction
\* 'Некорректные переменные:требуется функция'
ValidationError(d, o) ==
    IF DatasetRejected(d) THEN "InvalidData"
    ELSE IF o.type # "object" THEN "OptionsNotObject"
    ELSE IF ~Truthy(o.calculateRevenue) \/ ~Truthy(o.calculateBonus)
         THEN "MissingStrategy"
    ELSE IF ~IsFunction(o.calculateRevenue) \/ ~IsFunction(o.calculateBonus)
         THEN "StrategyNotFunction"
    ELSE "none"

\* lines 296-308
NewSellerStat(seller) ==
    [sellerId |-> seller.id, firstName |-> seller.first_name,
     lastName |-> seller.last_name, revenue |-> 0, profit |-> 0,
     sales_count |-> 0, products_sold |-> EmptyObject, bonus |-> Num(0),
     top_products |-> <<>>]

\* Object.fromEntries(pairs)[key]: the position of the last pair with the
\* key, 0 when there is none (lines 311-316, 320, 326)
IndexOf(keys, key) ==
    LET hits == {j \in 1..Len(keys) : keys[j] = key}
    IN  IF hits = {} THEN 0 ELSE CHOOSE j \in hits : \A h \in hits : h <= j

\* lines 325-339: record.items.forEach on the seller's running totals
RECURSIVE ForEachSoldItem(_, _, _)
ForEachSoldItem(st, items, catalog) ==
    IF items = <<>> THEN st
    ELSE LET item == Head(items)
             pj == IndexOf([j \in 1..Len(catalog) |-> catalog[j].sku], item.sku)
         IN  IF pj = 0 THEN ForEachSoldItem(st, Tail(items), catalog)
             ELSE LET product == catalog[pj]
                      cost == product.purchase_price * item.quantity * 100
                      revenue == calculateSimpleRevenue(item, product)
                      profit == revenue - cost
                      sold == IF Has(st.seller.products_sold, item.sku)
                                 /\ Get(st.seller.products_sold, item.sku) # 0
                              THEN st.seller.products_sold
                              ELSE Put(st.seller.products_sold, item.sku, 0)
                  IN  ForEachSoldItem(
                          [seller |-> [st.seller EXCEPT
                                         !.profit = @ + profit,
                                         !.products_sold =
                                            Put(sold, item.sku, Get(sold, item.sku) + item.quantity)],
                           calls |-> st.calls + 1],
                          Tail(items), catalog)

\* lines 319-341: one purchase record
RecordStep(stats, calls, record, catalog) ==
    LET sj == IndexOf([j \in 1..Len(stats) |-> stats[j].sellerId], record.seller_id)
    IN  IF sj = 0 THEN [stats |-> stats, calls |-> calls]
        ELSE LET entered == [stats[sj] EXCEPT !.sales_count = @ + 1,
                                              !.revenue = @ + record.total_amount]
                 st == ForEachSoldItem([seller |-> entered, calls |-> calls],
                                       record.items, catalog)
             IN  [stats |-> [stats EXCEPT ![sj] = st.seller], calls |-> st.calls]

\* line 344: sellerStats.sort((a, b) => b.profit - a.profit)
SortSellersByProfit(stats) ==
    SortDescending([j \in 1..Len(stats) |-> [key |-> stats[j].profit, val |-> stats[j]]])

\* lines 349-352
TopProducts(products_sold) ==
    LET entries == ObjectEntries(products_sold)
        mapped == [j \in 1..Len(entries) |->
                      [sku |-> entries[j][1], quantity |-> entries[j][2]]]
    IN  SliceFirst(SortDescending([j \in 1..Len(mapped) |->
                                      [key |-> mapped[j].quantity, val |-> mapped[j]]]),
                   TopN)

\* line 348: the arguments of calculateBonus(seller, index, sellerStats.length)
\* for the seller at index (a JavaScript index) of the sorted array
BonusCall(stats, index) ==
    [seller |-> stats[index + 1], index |-> index, total |-> Len(stats)]

\* lines 347-353: the bonus and the top products of that seller
AssignBonus(fn, stats, index) ==
    LET call == BonusCall(stats, index)
    IN  [stats[index + 1] EXCEPT
            !.bonus = calculateBonus(fn, Obj(call.seller), Num(call.index), Num(call.total)),
            !.top_products = TopProducts(stats[index + 1].products_sold)]

\* lines 356-364.  revenue and profit are whole cents, which toFixed(2)
\* keeps; the bonus, in hundredths of a cent, is rounded to cents, and a
\* NaN bonus is replaced by 0 (seller.bonus || 0)
ReportEntry(seller) ==
    [seller_id |-> seller.sellerId,
     name |-> <<seller.firstName, seller.lastName>>,
     revenue |-> seller.revenue,
     profit |-> seller.profit,
     sales_count |-> seller.sales_count,
     top_products |-> seller.top_products,
     bonus |-> IF seller.bonus.type = "number" THEN RoundDiv(seller.bonus.v, 100) ELSE 0]

(***************************************************************************)
(* groupBy (main.js 7-14), given the array as [key, val] pairs (key is     *)
(* keyFn of val): an object from each key to the sequence of its values,   *)
(* the bucket of a key created at its first sight.                         *)
(***************************************************************************)
RECURSIVE GroupPairs(_, _)
GroupPairs(obj, pairs) ==
    IF pairs = <<>> THEN obj
    ELSE LET k == Head(pairs).key
             bucket == IF Has(obj, k) THEN Get(obj, k) ELSE <<>>
         IN  GroupPairs(Put(obj, k, Append(bucket, Head(pairs).val)), Tail(pairs))

groupBy(pairs) == GroupPairs(EmptyObject, pairs)

\* array.flatMap(record => record.items)
RECURSIVE FlatItems(_)
FlatItems(recs) == IF recs = <<>> THEN <<>> ELSE Head(recs).items \o FlatItems(Tail(recs))

(***************************************************************************)
(* The reduce idiom of the bonus rules (main.js 109-110, 126-132, 143-147, *)
(* 158-161, 172-188): a null seed, and a candidate replaces the best so    *)
(* far when its value is greater than (best?.value || 0).                  *)
(* A candidate is [id, q, ref] with q a result of Divide.                  *)
(***************************************************************************)
Null == [found |-> FALSE]
Finite(r) == [kind |-> "finite", val |-> r]

Threshold(best) == IF best.found /\ best.value.n # 0 THEN best.value ELSE RZero

RECURSIVE ReduceBest(_, _)
ReduceBest(best, cands) ==
    IF cands = <<>> THEN best
    ELSE LET c == Head(cands)
         IN  ReduceBest(IF GreaterThan(c.q, Threshold(best))
                        THEN [found |-> TRUE, id |-> c.id, value |-> c.q.val, ref |-> c.ref]
                        ELSE best,
                        Tail(cands))

\* Math.max(...values): -Infinity of no values
RECURSIVE MaxOf(_)
MaxOf(values) ==
    IF values = <<>> THEN [kind |-> "-Infinity"]
    ELSE LET rest == MaxOf(Tail(values))
         IN  IF rest.kind = "finite" /\ Head(values) < rest.val.n THEN rest
             ELSE Finite(RInt(Head(values)))

Threw == [threw |-> TRUE]
BonusResult(category, sellerId, bonus) ==
    [threw |-> FALSE, category |-> category, seller_id |-> sellerId, bonus |-> bonus]
NoSeller == "undefined"

\* stats.X[id]?.revenue || 0
RevenueOrZero(obj, id) == IF Has(obj, id) THEN Get(obj, id).revenue ELSE 0

(***************************************************************************)
(* bonusBestCustomer (main.js 108-122)                                     *)
(***************************************************************************)
bonusBestCustomer(ctx) ==
    LET entries == ObjectEntries(ctx.stats.customers)
        bestCustomer == ReduceBest(Null,
            [j \in 1..Len(entries) |->
                [id |-> entries[j][1], q |-> Finite(RInt(entries[j][2].revenue)),
                 ref |-> entries[j][2]]])
    IN  IF ~bestCustomer.found THEN Threw
        ELSE LET members == bestCustomer.ref.sellers
                 top == ReduceBest(Null,
                    [j \in 1..Len(members) |->
                        [id |-> members[j],
                         q |-> Finite(RInt(RevenueOrZero(ctx.stats.sellers, members[j]))),
                         ref |-> members[j]]])
             IN  IF ~top.found THEN Threw
                 ELSE BonusResult("Best Customer Seller", top.id,
                                  RoundDiv(bestCustomer.ref.revenue * 5, 100))

(***************************************************************************)
(* bonusCustomerRetention (main.js 125-139): the bonus is 1000 units       *)
(***************************************************************************)
bonusCustomerRetention(ctx) ==
    LET entries == ObjectEntries(ctx.stats.sellers)
        bestRetention == ReduceBest(Null,
            [j \in 1..Len(entries) |->
                LET members == entries[j][2].customers
                IN  [id |-> entries[j][1],
                     q |-> MaxOf([m \in 1..Len(members) |->
                                     RevenueOrZero(ctx.stats.customers, members[m])]),
                     ref |-> entries[j][1]]])
    IN  IF ~bestRetention.found THEN Threw
        ELSE BonusResult("Best Customer Retention", bestRetention.id, 1000 * 100)

(***************************************************************************)
(* bonusLargestSingleSale (main.js 142-154)                                *)
(***************************************************************************)
bonusLargestSingleSale(ctx) ==
    LET entries == ObjectEntries(ctx.recordsBySeller)
        largestOf(recs) == ReduceBest(Null,
            [j \in 1..Len(recs) |->
                [id |-> recs[j].seller_id, q |-> Finite(RInt(recs[j].total_amount)),
                 ref |-> recs[j]]])
        perSeller == [j \in 1..Len(entries) |-> largestOf(entries[j][2])]
        \* largestRecord?.total_amount is undefined for a null largestRecord,
        \* and undefined > x is false
        IsCandidate(b) == b.found
        found == SelectSeq(perSeller, IsCandidate)
        largestSale == ReduceBest(Null,
            [j \in 1..Len(found) |->
                [id |-> found[j].id, q |-> Finite(found[j].value), ref |-> found[j].ref]])
    IN  IF ~largestSale.found THEN Threw
        ELSE BonusResult("Largest Single Sale", largestSale.ref.seller_id,
                         RoundDiv(largestSale.ref.total_amount * 10, 100))

(***************************************************************************)
(* bonusHighestAverageProfit (main.js 157-168)                             *)
(***************************************************************************)
bonusHighestAverageProfit(ctx) ==
    LET entries == ObjectEntries(ctx.stats.sellers)
        bestSeller == ReduceBest(Null,
            [j \in 1..Len(entries) |->
                LET n == Len(entries[j][2].items)
                IN  [id |-> entries[j][1],
                     q |-> Finite(Rat(entries[j][2].profit, IF n = 0 THEN 1 ELSE n)),
                     ref |-> entries[j][1]]])
    IN  IF ~bestSeller.found THEN Threw
        ELSE BonusResult("Highest Average Profit", bestSeller.id,
                         RoundDiv(bestSeller.value.n * 10, bestSeller.value.d * 100))

(***************************************************************************)
(* bonusStableGrowth (main.js 171-195)                                     *)
(***************************************************************************)
\* record.date.slice(0, 7); a record's date is held as its month
MonthOf(record) == record.date

\* new Date(month) as a number for the comparator of line 175
MonthTime(month) ==
    CASE month = "2024-01" -> 1
      [] month = "2024-02" -> 2
      [] month = "2024-03" -> 3
      [] OTHER -> 0

\* lines 177-178: the profits of every item of the month's records
ItemProfits(recs, fn, catalog) ==
    LET items == FlatItems(recs)
    IN  [j \in 1..Len(items) |-> calculateProfit(fn, items[j], find(catalog, items[j].sku))]

\* lines 173-178: the seller's monthly averages in chronological order
MonthlyAverages(recs, fn, catalog) ==
    LET monthlyProfits == ObjectEntries(groupBy(
            [j \in 1..Len(recs) |-> [key |-> MonthOf(recs[j]), val |-> recs[j]]]))
        \* ascending in time: descending in the negated time
        sorted == SortDescending([j \in 1..Len(monthlyProfits) |->
                     [key |-> -MonthTime(monthlyProfits[j][1]), val |-> monthlyProfits[j]]])
    IN  [j \in 1..Len(sorted) |->
            LET profits == ItemProfits(sorted[j][2], fn, catalog)
            IN  calculateAverage([m \in 1..Len(profits) |-> RInt(profits[m].value)])]

\* lines 180-182
Qualifies(monthlyAverages) ==
    LET t == analyzeSequence(monthlyAverages, DefaultTolerance)
    IN  t.isStable /\ t.isIncreasing

bonusStableGrowth(ctx) ==
    LET entries == ObjectEntries(ctx.recordsBySeller)
        \* calculateProfit throws out of the rule (line 178)
        profitThrows ==
            \E j \in 1..Len(entries) :
                LET profits == ItemProfits(entries[j][2], ctx.calculateProfit, ctx.products)
                IN  \E m \in 1..Len(profits) : profits[m].threw
        Growing(entry) == Qualifies(MonthlyAverages(entry[2], ctx.calculateProfit, ctx.products))
        growing == SelectSeq(entries, Growing)
        bestSeller == ReduceBest(Null,
            [j \in 1..Len(growing) |->
                [id |-> growing[j][1],
                 q |-> Finite(calculateAverage(
                          MonthlyAverages(growing[j][2], ctx.calculateProfit, ctx.products))),
                 ref |-> growing[j][1]]])
    IN  IF profitThrows THEN Threw
        ELSE IF ~bestSeller.found THEN BonusResult("Stable Growth", NoSeller, 0)
        ELSE BonusResult("Stable Growth", bestSeller.id,
                         RoundDiv(bestSeller.value.n * 15, bestSeller.value.d * 100))

(***************************************************************************)
(* calculateSpecialBonuses (main.js 82-105)                                *)
(***************************************************************************)
\* lines 83-90 and the object literal of lines 94-103
BuildContext(d, fn) ==
    LET metrics == baseMetrics(d.purchase_records, fn, d.products)
    IN  [threw |-> metrics.threw,
         stats |-> metrics.acc,
         recordsBySeller |-> groupBy([j \in 1..Len(d.purchase_records) |->
             [key |-> d.purchase_records[j].seller_id, val |-> d.purchase_records[j]]]),
         recordsByCustomer |-> groupBy([j \in 1..Len(d.purchase_records) |->
             [key |-> d.purchase_records[j].customer_id, val |-> d.purchase_records[j]]]),
         recordsByProduct |-> groupBy([j \in 1..Len(FlatItems(d.purchase_records)) |->
             [key |-> FlatItems(d.purchase_records)[j].sku,
              val |-> FlatItems(d.purchase_records)[j]]]),
         sellers |-> d.sellers, customers |-> d.customers, products |-> d.products,
         calculateProfit |-> fn]

\* func(context) for one entry of bonusFunctions
ApplyBonusFunction(func, ctx) ==
    CASE func = "bonusBestCustomer" -> bonusBestCustomer(ctx)
      [] func = "bonusCustomerRetention" -> bonusCustomerRetention(ctx)
      [] func = "bonusLargestSingleSale" -> bonusLargestSingleSale(ctx)
      [] func = "bonusHighestAverageProfit" -> bonusHighestAverageProfit(ctx)
      [] OTHER -> bonusStableGrowth(ctx)

(***************************************************************************)
(* Values of the variables of the functions a specification does not run.  *)
(***************************************************************************)
IdleSequence ==
    /\ sequence = <<>> /\ tolerance = DefaultTolerance
    /\ trends = [isStable |-> FALSE, isIncreasing |-> FALSE, isDecreasing |-> FALSE]
    /\ seqPc = "idle"
IdleMetrics ==
    /\ records = <<>> /\ products = <<>> /\ profitFn = "simpleProfit"
    /\ acc = EmptyAcc /\ profitCalls = 0 /\ bmPc = "idle"
IdleSales ==
    /\ data = [type |-> "null"] /\ options = [type |-> "undefined"]
    /\ sellerStats = <<>> /\ nextRecord = 0 /\ revenueCalls = 0
    /\ bonusCalls = <<>> /\ report = <<>> /\ error = "none" /\ asPc = "idle"
IdleBonuses ==
    /\ bData = [sellers |-> <<>>, customers |-> <<>>, products |-> <<>>,
                purchase_records |-> <<>>]
    /\ bOptions = [calculateProfit |-> "simpleProfit", accumulateMetrics |-> "baseMetrics"]
    /\ bonusFunctions = <<>> /\ context = [threw |-> FALSE] /\ results = <<>>
    /\ csbPc = "idle"

(***************************************************************************)
(* Specification of analyzeSequence: the inputs, then the call.            *)
(***************************************************************************)
SequenceValues == {RInt(v) : v \in {-Unit, -(Unit - 1), 0, Unit, Unit + 1}}
Tolerances == {DefaultTolerance, Rat(0, 1), Rat(1, 1), Rat(-1, 20)}

InitSequence ==
    /\ sequence \in SeqsUpTo(SequenceValues, MaxSeqLen)
    /\ tolerance \in Tolerances
    /\ trends = [isStable |-> FALSE, isIncreasing |-> FALSE, isDecreasing |-> FALSE]
    /\ seqPc = "call"
    /\ IdleMetrics /\ IdleSales /\ IdleBonuses

AnalyzeSequence ==
    /\ seqPc = "call"
    /\ trends' = analyzeSequence(sequence, tolerance)
    /\ seqPc' = "returned"
    /\ UNCHANGED <<sequence, tolerance, varsBM, varsAS, varsCSB>>

NextSequence == AnalyzeSequence
SpecSequence == InitSequence /\ [][NextSequence]_vars

(***************************************************************************)
(* Specification of baseMetrics: the reduce reads one record per step.     *)
(* records holds the records read so far; a throw of the profit function   *)
(* ends the call.                                                          *)
(***************************************************************************)
InitMetrics ==
    /\ records = <<>>
    /\ products \in Catalogs
    /\ profitFn \in {"simpleProfit", "guardedProfit"}
    /\ acc = EmptyAcc
    /\ profitCalls = 0
    /\ bmPc = "reduce"
    /\ IdleSequence /\ IdleSales /\ IdleBonuses

ReduceStep ==
    /\ bmPc = "reduce"
    /\ Len(records) < MaxRecords
    /\ \E record \in MetricRecords(MaxItems - ItemCount(records)) :
          LET st == ReduceRecord([acc |-> acc, threw |-> FALSE, calls |-> profitCalls],
                                 record, profitFn, products)
          IN  /\ records' = Append(records, record)
              /\ acc' = st.acc
              /\ profitCalls' = st.calls
              /\ bmPc' = IF st.threw THEN "thrown" ELSE "reduce"
    /\ UNCHANGED <<products, profitFn, varsSeq, varsAS, varsCSB>>

ReduceReturn ==
    /\ bmPc = "reduce"
    /\ bmPc' = "returned"
    /\ UNCHANGED <<records, products, profitFn, acc, profitCalls,
                   varsSeq, varsAS, varsCSB>>

NextMetrics == ReduceStep \/ ReduceReturn
SpecMetrics == InitMetrics /\ [][NextMetrics]_vars

(***************************************************************************)
(* Properties of analyzeSequence.                                          *)
(***************************************************************************)
\* |a - b| / |b| <= tol as a statement about numbers: b is not 0 and
\* |a - b| <= tol * |b|
WithinTolerance(a, b, tol) ==
    b.n # 0 /\ ~RLess(RMul(tol, RAbs(b)), RAbs(RSub(a, b)))

EndpointTrends ==
    /\ trends.isIncreasing = RLess(sequence[1], sequence[Len(sequence)])
    /\ trends.isDecreasing = RLess(sequence[Len(sequence)], sequence[1])

ShortSequenceTrends ==
    Len(sequence) < 2 =>
        trends = [isStable |-> TRUE, isIncreasing |-> FALSE, isDecreasing |-> FALSE]

\* C8 as stated: for a sequence of length >= 2, isStable is true if and only
\* if every consecutive pair has |s[i] - s[i-1]| / |s[i-1]| <= tolerance, also
\* when a predecessor is 0; a shorter sequence is stable and has no direction;
\* the direction follows from the sign of last - first alone.
C8_StableIffEveryPairWithin ==
    seqPc = "returned" =>
        /\ ShortSequenceTrends
        /\ Len(sequence) >= 2 =>
              /\ trends.isStable =
                    (\A i \in 2..Len(sequence) :
                        WithinTolerance(sequence[i], sequence[i - 1], tolerance))
              /\ EndpointTrends

\* C8 amended: isStable is true if and only if every consecutive pair either
\* has |s[i] - s[i-1]| / |s[i-1]| <= tolerance or consists of two zeros (0/0
\* is NaN, which the test "> tolerance" does not count as a violation); a
\* zero followed by a non-zero value makes the sequence unstable.
C8_StableIffNoPairExceeds ==
    seqPc = "returned" =>
        /\ ShortSequenceTrends
        /\ Len(sequence) >= 2 =>
              /\ trends.isStable =
                    (\A i \in 2..Len(sequence) :
                        \/ WithinTolerance(sequence[i], sequence[i - 1], tolerance)
                        \/ sequence[i].n = 0 /\ sequence[i - 1].n = 0)
              /\ EndpointTrends

\* a returned call on a sequence with a pair of zeros that is stable, and
\* with a non-zero step within the tolerance
C8_Witness ==
    /\ seqPc = "returned"
    /\ Len(sequence) = 3
    /\ sequence[1].n = 0 /\ sequence[2].n = 0
    /\ trends.isStable
    /\ tolerance = DefaultTolerance

(***************************************************************************)
(* Properties of baseMetrics.                                              *)
(***************************************************************************)
RECURSIVE SumSeq(_)
SumSeq(ns) == IF ns = <<>> THEN 0 ELSE Head(ns) + SumSeq(Tail(ns))

RevenueSum(obj) == SumSeq([j \in 1..Len(obj) |-> obj[j][2].revenue])
ItemsRead == FlatItems(records)
LineRevenueRead == SumSeq([j \in 1..Len(ItemsRead) |-> lineRevenue(ItemsRead[j])])
IsCataloged(item) == find(products, item.sku) # Undefined
CatalogedItemsRead == SelectSeq(ItemsRead, IsCataloged)

\* C4: after any prefix of the records, the revenue summed over the seller
\* aggregates, over the customer aggregates and over the product aggregates
\* is the same amount, the sum of lineRevenue over the items processed.
C4_RevenueConserved ==
    /\ RevenueSum(acc.sellers) = RevenueSum(acc.customers)
    /\ RevenueSum(acc.sellers) = RevenueSum(acc.products)
    /\ bmPc # "thrown" => RevenueSum(acc.sellers) = LineRevenueRead

\* two sellers and two customers with revenue after three records
C4_Witness ==
    /\ bmPc = "returned"
    /\ Len(records) = 3
    /\ Len(acc.sellers) = 2 /\ Len(acc.customers) = 2 /\ Len(acc.products) = 2
    /\ \A j \in 1..2 : acc.sellers[j][2].revenue > 0 /\ acc.customers[j][2].revenue > 0

\* C10: customer c is among sellers[s].customers exactly when seller s is
\* among customers[c].sellers, exactly when a processed record of s and c has
\* an item; the seller and customer buckets are those of the ids of the
\* processed records, with or without items.
C10_LinksAndBuckets ==
    bmPc # "thrown" =>
        /\ Keys(acc.sellers) = {records[j].seller_id : j \in 1..Len(records)}
        /\ Keys(acc.customers) = {records[j].customer_id : j \in 1..Len(records)}
        /\ \A s \in SellerIds, c \in CustomerIds :
              LET inSeller == Has(acc.sellers, s)
                                /\ SetHas(Get(acc.sellers, s).customers, c)
                  inCustomer == Has(acc.customers, c)
                                /\ SetHas(Get(acc.customers, c).sellers, s)
                  sold == \E j \in 1..Len(records) :
                              /\ records[j].seller_id = s
                              /\ records[j].customer_id = c
                              /\ records[j].items # <<>>
              IN  inSeller = inCustomer /\ inCustomer = sold

\* a seller with a record without items and a record with an item: the
\* customer of the first has a bucket and no seller, the customer of the
\* second is linked, and the seller without a record has no bucket
C10_Witness ==
    /\ bmPc = "returned"
    /\ Len(records) = 2
    /\ Has(acc.sellers, "seller_1") /\ ~Has(acc.sellers, "seller_2")
    /\ Get(acc.sellers, "seller_1").customers = <<"customer_2">>
    /\ Has(acc.customers, "customer_1") /\ Has(acc.customers, "customer_2")
    /\ Get(acc.customers, "customer_1").sellers = EmptySet
    /\ Get(acc.customers, "customer_2").sellers = <<"seller_1">>

\* C3 as stated: an item whose sku is not in the catalog is skipped: the
\* call does not fail, the profit function is called for the cataloged
\* items only, and the item adds to no aggregate.
C3_UnknownSkuSkipped ==
    /\ bmPc # "thrown"
    /\ profitCalls = Len(CatalogedItemsRead)
    /\ RevenueSum(acc.sellers) =
          SumSeq([j \in 1..Len(CatalogedItemsRead) |-> lineRevenue(CatalogedItemsRead[j])])
    /\ \A j \in 1..Len(acc.products) :
          \E k \in 1..Len(products) : products[k].sku = acc.products[j][1]
    /\ \A j \in 1..Len(acc.sellers) :
          \A k \in 1..Len(acc.sellers[j][2].items) : IsCataloged(acc.sellers[j][2].items[k])

(***************************************************************************)
(* Specification of analyzeSalesData: the dataset and the options, then    *)
(* the checks, the preparation, one step per purchase record, the sort,    *)
(* the bonuses and the report.                                             *)
(***************************************************************************)
Seller(id, first, last) == [id |-> id, first_name |-> first, last_name |-> last]
FourSellers == <<Seller("seller_1", "Alexey", "Petrov"), Seller("seller_2", "Mikhail", "Nikolaev"),
                 Seller("seller_3", "Natalya", "Egorova"), Seller("seller_4", "Nikolai", "Rogov")>>
SellerCatalogs == {FourSellers}
UnknownSeller == "seller_9"
\* records name the first and the third seller and one that is not cataloged
SoldSellerIds == {FourSellers[1].id, FourSellers[3].id, UnknownSeller}

SoldProducts == <<[sku |-> "2", purchase_price |-> 4], [sku |-> "1", purchase_price |-> 30],
                  [sku |-> "SKU_A", purchase_price |-> 5]>>
SoldItems ==
    {[sku |-> "2", sale_price |-> 10, quantity |-> 1, discount |-> 0],
     [sku |-> "1", sale_price |-> 20, quantity |-> 1, discount |-> 50],
     [sku |-> "SKU_A", sale_price |-> 10, quantity |-> 2, discount |-> 0],
     [sku |-> UnknownSku, sale_price |-> 10, quantity |-> 1, discount |-> 0]}
Customers == <<[id |-> "customer_1"]>>

SaleRecords(room) ==
    {[seller_id |-> s, customer_id |-> "customer_1", date |-> "2024-01",
      total_amount |-> 1050, items |-> its] :
        s \in SoldSellerIds, its \in SeqsUpTo(SoldItems, room)}

RECURSIVE SaleLists(_, _)
SaleLists(n, room) ==
    IF n = 0 THEN {<<>>}
    ELSE UNION {{<<r>> \o rest : rest \in SaleLists(n - 1, room - Len(r.items))} :
                    r \in SaleRecords(room)}

Dataset(customers, prods, sellers, recs) ==
    [type |-> "object", customers |-> customers, products |-> prods,
     sellers |-> sellers, purchase_records |-> recs]

ValidDatasets ==
    {Dataset(Array(Customers), Array(SoldProducts), Array(sellers), Array(recs)) :
        sellers \in SellerCatalogs,
        recs \in UNION {SaleLists(n, MaxSoldItems) : n \in 1..MaxSales}}

SampleRecords == <<[seller_id |-> "seller_1", customer_id |-> "customer_1", date |-> "2024-01",
                    total_amount |-> 1050,
                    items |-> <<[sku |-> "2", sale_price |-> 10, quantity |-> 1, discount |-> 0]>>]>>
SampleCatalogs == <<Array(Customers), Array(SoldProducts), Array(FourSellers), Array(SampleRecords)>>
BrokenCatalogs == {[type |-> "undefined"], [type |-> "string"], Array(<<>>)}

\* the sample dataset with some of its catalogs broken, and no dataset
InvalidDatasets ==
    {[type |-> "null"]} \cup
    {Dataset(c[1], c[2], c[3], c[4]) :
        c \in {x \in [1..4 -> BrokenCatalogs \cup {SampleCatalogs[j] : j \in 1..4}] :
                  /\ \A j \in 1..4 : x[j] \in BrokenCatalogs \/ x[j] = SampleCatalogs[j]
                  /\ Cardinality({j \in 1..4 : x[j] \in BrokenCatalogs}) \in {1, 2}}}

SampleDataset == Dataset(SampleCatalogs[1], SampleCatalogs[2], SampleCatalogs[3], SampleCatalogs[4])

StrategyValues(names) ==
    {[type |-> "undefined"], [type |-> "zero"], [type |-> "string"]}
        \cup {Function(n) : n \in names}
AllOptions ==
    {[type |-> "undefined"], [type |-> "null"], [type |-> "string"]} \cup
    {[type |-> "object", calculateRevenue |-> r, calculateBonus |-> b] :
        r \in StrategyValues({"calculateSimpleRevenue"}),
        b \in StrategyValues({"calculateBonusByProfit", "bonusBySellerRank"})}
ValidOptions == {o \in AllOptions : ValidationError(SampleDataset, o) = "none"}

InitSales ==
    /\ \/ data \in ValidDatasets /\ options \in ValidOptions
       \/ data \in InvalidDatasets \cup {SampleDataset} /\ options \in AllOptions
    /\ sellerStats = <<>>
    /\ nextRecord = 0
    /\ revenueCalls = 0
    /\ bonusCalls = <<>>
    /\ report = <<>>
    /\ error = "none"
    /\ asPc = "check"
    /\ IdleSequence /\ IdleMetrics /\ IdleBonuses

\* lines 269-293
CheckInput ==
    /\ asPc = "check"
    /\ error' = ValidationError(data, options)
    /\ asPc' = IF error' = "none" THEN "prepare" ELSE "thrown"
    /\ UNCHANGED <<data, options, sellerStats, nextRecord, revenueCalls, bonusCalls,
                   report, varsSeq, varsBM, varsCSB>>

\* lines 296-316
Prepare ==
    /\ asPc = "prepare"
    /\ sellerStats' = [j \in 1..Len(data.sellers.elems) |-> NewSellerStat(data.sellers.elems[j])]
    /\ nextRecord' = 1
    /\ asPc' = "records"
    /\ UNCHANGED <<data, options, revenueCalls, bonusCalls, report, error,
                   varsSeq, varsBM, varsCSB>>

\* lines 319-341, one record
ProcessRecord ==
    /\ asPc = "records"
    /\ nextRecord <= Len(data.purchase_records.elems)
    /\ LET st == RecordStep(sellerStats, revenueCalls,
                            data.purchase_records.elems[nextRecord], data.products.elems)
       IN  /\ sellerStats' = st.stats
           /\ revenueCalls' = st.calls
    /\ nextRecord' = nextRecord + 1
    /\ UNCHANGED <<data, options, bonusCalls, report, error, asPc,
                   varsSeq, varsBM, varsCSB>>

\* line 344
SortSellers ==
    /\ asPc = "records"
    /\ nextRecord > Len(data.purchase_records.elems)
    /\ sellerStats' = SortSellersByProfit(sellerStats)
    /\ asPc' = "bonus"
    /\ UNCHANGED <<data, options, nextRecord, revenueCalls, bonusCalls, report, error,
                   varsSeq, varsBM, varsCSB>>

\* lines 347-353
AssignBonuses ==
    /\ asPc = "bonus"
    /\ sellerStats' = [j \in 1..Len(sellerStats) |->
                          AssignBonus(options.calculateBonus.name, sellerStats, j - 1)]
    /\ bonusCalls' = [j \in 1..Len(sellerStats) |->
                          LET call == BonusCall(sellerStats, j - 1)
                          IN  [seller_id |-> call.seller.sellerId, index |-> call.index,
                               total |-> call.total]]
    /\ asPc' = "report"
    /\ UNCHANGED <<data, options, nextRecord, revenueCalls, report, error,
                   varsSeq, varsBM, varsCSB>>

\* lines 356-364
BuildReport ==
    /\ asPc = "report"
    /\ report' = [j \in 1..Len(sellerStats) |-> ReportEntry(sellerStats[j])]
    /\ asPc' = "returned"
    /\ UNCHANGED <<data, options, sellerStats, nextRecord, revenueCalls, bonusCalls,
                   error, varsSeq, varsBM, varsCSB>>

NextSales ==
    CheckInput \/ Prepare \/ ProcessRecord \/ SortSellers \/ AssignBonuses \/ BuildReport
SpecSales == InitSales /\ [][NextSales]_vars

(***************************************************************************)
(* Properties of analyzeSalesData.                                         *)
(***************************************************************************)
CatalogBroken(c) == c.type # "array" \/ c.elems = <<>>
BadDataset ==
    \/ data.type = "null"
    \/ data.type = "object" /\ \/ CatalogBroken(data.customers)
                               \/ CatalogBroken(data.products)
                               \/ CatalogBroken(data.sellers)
                               \/ CatalogBroken(data.purchase_records)
BadStrategy(f) == f.type # "function"
BadOptions ==
    \/ options.type # "object"
    \/ options.type = "object" /\ \/ BadStrategy(options.calculateRevenue)
                                  \/ BadStrategy(options.calculateBonus)
NothingDone ==
    /\ report = <<>> /\ sellerStats = <<>> /\ nextRecord = 0
    /\ revenueCalls = 0 /\ bonusCalls = <<>>

\* C2: with a catalog missing, not an array or empty, or with options that
\* are missing, not an object, or lack a callable calculateRevenue or
\* calculateBonus, the call throws at once: no result, no aggregation, no
\* call of either strategy; the dataset is checked before the options.
C2_InvalidInputThrowsFirst ==
    asPc # "check" =>
        /\ (BadDataset \/ BadOptions) = (asPc = "thrown")
        /\ asPc = "thrown" => NothingDone
        /\ BadDataset => error = "InvalidData"
        /\ ~BadDataset /\ BadOptions =>
              error \in {"OptionsNotObject", "MissingStrategy", "StrategyNotFunction"}

\* an empty product catalog together with missing options: the dataset error
C2_Witness ==
    /\ asPc = "thrown"
    /\ data.type = "object" /\ data.products = Array(<<>>)
    /\ IsArray(data.sellers) /\ data.sellers.elems # <<>>
    /\ options.type = "undefined"
    /\ error = "InvalidData"

SellerCatalog == data.sellers.elems
CatalogPosition(id) == CHOOSE j \in 1..Len(SellerCatalog) : SellerCatalog[j].id = id

\* the cataloged items of the records of a seller, in the order of the sales
SoldBy(id) ==
    LET OfSeller(r) == r.seller_id = id
        Known(item) == \E k \in 1..Len(data.products.elems) :
                            data.products.elems[k].sku = item.sku
    IN  SelectSeq(FlatItems(SelectSeq(data.purchase_records.elems, OfSeller)), Known)

PurchasePrice(sku) ==
    data.products.elems[CHOOSE k \in 1..Len(data.products.elems) :
                            data.products.elems[k].sku = sku].purchase_price

AccumulatedProfit(id) ==
    LET sold == SoldBy(id)
    IN  SumSeq([j \in 1..Len(sold) |->
                   lineRevenue(sold[j]) - PurchasePrice(sold[j].sku) * sold[j].quantity * 100])

\* C6: the report has one entry per cataloged seller and no other, in the
\* order of accumulated profit, highest first, sellers of equal profit in
\* catalog order; calculateBonus is called for each seller with its 0-based
\* position in that order and the number of sellers.
C6_ReportIsRankedCatalog ==
    asPc = "returned" =>
        /\ Len(report) = Len(SellerCatalog)
        /\ {report[j].seller_id : j \in 1..Len(report)}
              = {SellerCatalog[j].id : j \in 1..Len(SellerCatalog)}
        /\ \A j \in 1..Len(report) : report[j].profit = AccumulatedProfit(report[j].seller_id)
        /\ \A j, k \in 1..Len(report) :
              j < k =>
                 /\ report[j].profit >= report[k].profit
                 /\ report[j].profit = report[k].profit =>
                       CatalogPosition(report[j].seller_id) < CatalogPosition(report[k].seller_id)
        /\ bonusCalls = [j \in 1..Len(report) |->
                            [seller_id |-> report[j].seller_id, index |-> j - 1,
                             total |-> Len(SellerCatalog)]]

\* the third seller leads with a profit, the others tie in catalog order,
\* and a record names a seller that is not cataloged
C6_Witness ==
    /\ asPc = "returned"
    /\ [j \in 1..Len(report) |-> report[j].seller_id]
          = <<"seller_3", "seller_1", "seller_2", "seller_4">>
    /\ report[1].profit > 0 /\ report[2].profit = 0
    /\ \E j \in 1..Len(data.purchase_records.elems) :
          /\ data.purchase_records.elems[j].seller_id = UnknownSeller
          /\ data.purchase_records.elems[j].items # <<>>

RankRate(index) == IF index = 0 THEN 15 ELSE IF index \in {1, 2} THEN 10 ELSE 5

\* C1 as stated: with calculateBonusByProfit given as calculateBonus and at
\* least 4 sellers, the seller at rank 0 of the report has a bonus of 15% of
\* its profit, those at ranks 1 and 2 of 10%, the others of 5%, each rounded
\* to 2 decimals.
C1_ReferenceBonusByRank ==
    (/\ asPc = "returned"
     /\ options.calculateBonus.name = "calculateBonusByProfit"
     /\ Len(report) >= 4) =>
        \A j \in 1..Len(report) :
            report[j].bonus = RoundDiv(report[j].profit * RankRate(j - 1), 100)

\* the position of the first sale of a sku among the sales of a seller
FirstSold(id, sku) ==
    LET sold == SoldBy(id)
        at == {j \in 1..Len(sold) : sold[j].sku = sku}
    IN  CHOOSE j \in at : \A k \in at : j <= k

SoldQuantity(id, sku) ==
    LET sold == SoldBy(id)
    IN  SumSeq([j \in 1..Len(sold) |-> IF sold[j].sku = sku THEN sold[j].quantity ELSE 0])

\* sku t comes before sku u in the order of quantity, highest first, skus
\* of equal quantity in the order of their first sale
ListedBefore(id, t, u) ==
    \/ SoldQuantity(id, t) > SoldQuantity(id, u)
    \/ SoldQuantity(id, t) = SoldQuantity(id, u) /\ FirstSold(id, t) < FirstSold(id, u)

\* C7 as stated: top_products of a seller holds at most 10 entries, each sku
\* once with the seller's cumulative quantity, sorted by quantity, highest
\* first, skus of equal quantity in the order of their first sale; of more
\* than 10 skus the first 10 of that order are kept.
C7_TopProductsByQuantityThenFirstSale ==
    asPc = "returned" =>
        \A j \in 1..Len(report) :
            LET id == report[j].seller_id
                top == report[j].top_products
                skus == {SoldBy(id)[k].sku : k \in 1..Len(SoldBy(id))}
            IN  /\ Len(top) <= TopN
                /\ \A a, b \in 1..Len(top) : a < b =>
                      /\ top[a].sku # top[b].sku
                      /\ ListedBefore(id, top[a].sku, top[b].sku)
                /\ \A a \in 1..Len(top) :
                      /\ top[a].sku \in skus
                      /\ top[a].quantity = SoldQuantity(id, top[a].sku)
                /\ \A u \in skus :
                      (\E a \in 1..Len(top) : top[a].sku = u)
                         = (Cardinality({t \in skus : ListedBefore(id, t, u)}) < TopN)

(***************************************************************************)
(* Specification of calculateSpecialBonuses: a dataset with at least one   *)
(* record, whose records name cataloged sellers, customers and products    *)
(* only (so that simpleProfit does not throw), the reference profit        *)
(* function and accumulator, and a list of bonus rules; then the context,  *)
(* one step per rule, and the return.                                      *)
(***************************************************************************)
BonusRules == {"bonusBestCustomer", "bonusCustomerRetention", "bonusLargestSingleSale",
               "bonusHighestAverageProfit", "bonusStableGrowth"}
ReferenceRules == <<"bonusBestCustomer", "bonusCustomerRetention", "bonusLargestSingleSale",
                    "bonusHighestAverageProfit", "bonusStableGrowth">>
RuleLists == SeqsUpTo(BonusRules, 1) \cup {ReferenceRules, <<"bonusStableGrowth", "bonusBestCustomer">>}

Category(func) ==
    CASE func = "bonusBestCustomer" -> "Best Customer Seller"
      [] func = "bonusCustomerRetention" -> "Best Customer Retention"
      [] func = "bonusLargestSingleSale" -> "Largest Single Sale"
      [] func = "bonusHighestAverageProfit" -> "Highest Average Profit"
      [] OTHER -> "Stable Growth"

BonusProducts == <<[sku |-> "SKU_A", purchase_price |-> 0],
                   [sku |-> "SKU_B", purchase_price |-> 2 * Unit]>>
BonusItems ==
    {[sku |-> k, sale_price |-> p, quantity |-> 1, discount |-> 0] :
        k \in {"SKU_A", "SKU_B"}, p \in {Unit, Unit + 1}}
    \cup {[sku |-> "SKU_A", sale_price |-> 0, quantity |-> 1, discount |-> 0]}
BonusRecords ==
    {[seller_id |-> s, customer_id |-> c, date |-> m, total_amount |-> t, items |-> its] :
        s \in SellerIds, c \in CustomerIds, m \in {"2024-01", "2024-02"},
        t \in {0, 5000}, its \in SeqsUpTo(BonusItems, 1)}

InitBonuses ==
    /\ bData \in {[sellers |-> <<[id |-> "seller_1"], [id |-> "seller_2"]>>,
                   customers |-> <<[id |-> "customer_1"], [id |-> "customer_2"]>>,
                   products |-> BonusProducts,
                   purchase_records |-> recs] :
                      recs \in SeqsUpTo(BonusRecords, MaxBonusRecords) \ {<<>>}}
    /\ bOptions = [calculateProfit |-> "simpleProfit", accumulateMetrics |-> "baseMetrics"]
    /\ bonusFunctions \in RuleLists
    /\ context = [threw |-> FALSE]
    /\ results = <<>>
    /\ csbPc = "call"
    /\ IdleSequence /\ IdleMetrics /\ IdleSales

\* lines 83-90
GroupAndAccumulate ==
    /\ csbPc = "call"
    /\ context' = BuildContext(bData, bOptions.calculateProfit)
    /\ csbPc' = IF context'.threw THEN "thrown" ELSE "map"
    /\ UNCHANGED <<bData, bOptions, bonusFunctions, results, varsSeq, varsBM, varsAS>>

\* lines 93-104, one entry of bonusFunctions
ApplyRule ==
    /\ csbPc = "map"
    /\ Len(results) < Len(bonusFunctions)
    /\ LET r == ApplyBonusFunction(bonusFunctions[Len(results) + 1], context)
       IN  IF r.threw
           THEN csbPc' = "thrown" /\ UNCHANGED results
           ELSE csbPc' = "map"
                /\ results' = Append(results, [category |-> r.category,
                                               seller_id |-> r.seller_id, bonus |-> r.bonus])
    /\ UNCHANGED <<bData, bOptions, bonusFunctions, context, varsSeq, varsBM, varsAS>>

ReturnResults ==
    /\ csbPc = "map"
    /\ Len(results) = Len(bonusFunctions)
    /\ csbPc' = "returned"
    /\ UNCHANGED <<bData, bOptions, bonusFunctions, context, results,
                   varsSeq, varsBM, varsAS>>

NextBonuses == GroupAndAccumulate \/ ApplyRule \/ ReturnResults
SpecBonuses == InitBonuses /\ [][NextBonuses]_vars

(***************************************************************************)
(* Properties of calculateSpecialBonuses and of bonusStableGrowth.         *)
(***************************************************************************)
\* C5 as stated: whatever the dataset holds, the call returns one result
\* per rule of the list, in the order of the list.
C5_OneResultPerRule ==
    /\ csbPc # "thrown"
    /\ csbPc = "returned" =>
          /\ Len(results) = Len(bonusFunctions)
          /\ \A j \in 1..Len(results) : results[j].category = Category(bonusFunctions[j])

RecordsOfSeller(id) ==
    LET OfSeller(r) == r.seller_id = id IN SelectSeq(bData.purchase_records, OfSeller)
MonthlyAveragesOf(id) ==
    MonthlyAverages(RecordsOfSeller(id), bOptions.calculateProfit, bData.products)
Qualifiers ==
    {id \in {bData.purchase_records[j].seller_id : j \in 1..Len(bData.purchase_records)} :
        Qualifies(MonthlyAveragesOf(id))}
OverallAverage(id) == calculateAverage(MonthlyAveragesOf(id))

\* C9 as stated: when a seller qualifies, bonusStableGrowth names the
\* qualifier of the highest overall average profit; seller_id is undefined
\* and the bonus 0 if and only if no seller qualifies; the rule does not
\* fail.
C9_StableGrowthNamesBestQualifier ==
    /\ \A j \in 1..Len(results) :
          bonusFunctions[j] = "bonusStableGrowth" =>
             /\ Qualifiers # {} =>
                   /\ results[j].seller_id \in Qualifiers
                   /\ \A id \in Qualifiers :
                         ~RLess(OverallAverage(results[j].seller_id), OverallAverage(id))
             /\ (Qualifiers = {}) = (results[j].seller_id = NoSeller /\ results[j].bonus = 0)
    /\ csbPc = "thrown" => bonusFunctions[Len(results) + 1] # "bonusStableGrowth"

(***************************************************************************)
(* The four functions together: a behaviour is a call of one of them.      *)
(***************************************************************************)
Init == InitSequence \/ InitMetrics \/ InitSales \/ InitBonuses
Next == NextSequence \/ NextMetrics \/ NextSales \/ NextBonuses
Spec == Init /\ [][Next]_vars

====
